---- MODULE Spec2Model ----
(***************************************************************************)
(* A model of DHRutil:                                                     *)
(*   - DHRutil/RNAseq/align_and_count_features.py, the pipeline driver     *)
(*     (hisat2 -> samtools view -> samtools sort -> featureCounts);        *)
(*   - DHRutil/caching.py, the cached_rv decorator.                        *)
(*                                                                         *)
(* A path is the sequence of its dot-separated segments: "a.fq" is         *)
(* <<"a", "fq">>, "a.align.log" is <<"a", "align", "log">>.  The file      *)
(* system is a function from the existing paths to their contents; a       *)
(* content is a tuple whose first element names its kind.                  *)
(***************************************************************************)
EXTENDS Integers, Sequences, FiniteSets, TLC

\* ------------------------------------------------------------------ bounds

\* longest list of input_raw_sequence_reads a user configuration holds
MaxInputs == 3

\* the largest n_colors passed to get_colors: more than twice the seven levels
\* of a color set
MaxColors == 15

\* ------------------------------------------------------- program constants

\* the 70% quality gate, in hundredths of a percent
AlignRateThreshold == 7000

\* "max_cpu_threads": 16 of the template configuration
TemplateThreads == 16

\* ---------------------------------------------------------------- paths

\* os.path.splitext(p)[0]: the path without its last extension; a name with
\* no dot, or with leading dots only, has no extension.
RECURSIVE AllEmpty(_)
AllEmpty(s) == IF s = <<>> THEN TRUE ELSE Head(s) = "" /\ AllEmpty(Tail(s))

splitext(p) ==
    IF Len(p) > 1 /\ ~AllEmpty(SubSeq(p, 1, Len(p) - 1))
    THEN SubSeq(p, 1, Len(p) - 1)
    ELSE p

SamOf(input_fq)   == Append(splitext(input_fq), "sam")
LogOf(input_fq)   == splitext(input_fq) \o <<"align", "log">>
BamOf(input_sam)  == Append(splitext(input_sam), "bam")
SortOf(input_bam) == splitext(input_bam) \o <<"sort", "bam">>
GzOf(fq)          == Append(fq, "gz")

FeaturesLog == <<"features", "log">>
FeaturesTxt == <<"features", "txt">>
ConfigJson  == <<"config", "json">>

\* ------------------------------------------------------------ file system

Exists(f, p) == p \in DOMAIN f
isfile(f, p) == p \in DOMAIN f /\ f[p][1] # "dir"

\* open(p, 'w') ... close, or an external tool writing its output file
WriteFile(f, p, c) == [q \in DOMAIN f \cup {p} |-> IF q = p THEN c ELSE f[q]]
\* os.remove(p)
RemoveFile(f, p) == [q \in DOMAIN f \ {p} |-> f[q]]

\* ---------------------------------------------------------- configuration

K_reads   == "input_raw_sequence_reads"
K_threads == "max_cpu_threads"
K_index   == "hisat2_index_filename_prefix"
K_gtf     == "featureCounts_gtf_annotation_file"
K_gzip    == "gzip_fq_after_alignment"
K_rmsam   == "rm_sam_after_converting"
K_rmbam   == "rm_bam_after_sorting"

\* the dict of _make_sample_config_file, as the members of the JSON object
\* that json.dump writes, in insertion order
TemplateReads ==
    << <<"ctl_A_1", "fq">>, <<"ctl_A_2", "fq">>, <<"ctl_B_1", "fq">>, <<"ctl_B_2", "fq">>,
       <<"trt_C_1", "fq">>, <<"trt_C_2", "fq">>, <<"trt_D_1", "fq">>, <<"trt_D_2", "fq">> >>

ConfigMembers(reads, threads, gz, rmsam, rmbam) ==
    << <<K_reads, reads>>,
       <<K_threads, threads>>,
       <<K_index, "index/genome">>,
       <<K_gtf, "annotation.gtf">>,
       <<K_gzip, gz>>,
       <<K_rmsam, rmsam>>,
       <<K_rmbam, rmbam>> >>

\* (a template without "rm_bam_after_sorting", to test C8)
TemplateConfig_NoRmBam ==
    SubSeq(ConfigMembers(TemplateReads, TemplateThreads, TRUE, TRUE, TRUE), 1, 6)

TemplateConfig == ConfigMembers(TemplateReads, TemplateThreads, TRUE, TRUE, TRUE)

\* json.dump(config, f): the file holds the object's members
jdump(members) == <<"json", members>>

\* json.load(f): the dict of the object's members; of two members with one
\* key the later one wins
jload(content) ==
    LET ms == content[2]
        keys == {ms[n][1] : n \in 1..Len(ms)}
        last(k) == CHOOSE n \in 1..Len(ms) :
                      /\ ms[n][1] = k
                      /\ \A m \in 1..Len(ms) : ms[m][1] = k => m <= n
    IN  [k \in keys |-> ms[last(k)][2]]

Has(c, k) == k \in DOMAIN c


\* -------------------------------------------------------------- caching.py

\* longest positional argument list of a call of a wrapped function
MaxArgs == 2

\* most calls of wrapped functions in one behaviour
MaxCalls == 2

\* A string is the sequence of its characters.  An argument is a string or a
\* natural number.
StrArg(chars) == <<"str", chars>>
IntArg(n)     == <<"int", n>>

RECURSIVE Decimal(_)
Decimal(n) ==
    LET digit == <<"0", "1", "2", "3", "4", "5", "6", "7", "8", "9">>
    IN  IF n < 10 THEN <<digit[n + 1]>> ELSE Append(Decimal(n \div 10), digit[(n % 10) + 1])

\* str(arg)
str(arg) == IF arg[1] = "int" THEN Decimal(arg[2]) ELSE arg[2]

\* c.isalnum(), for the characters the model uses
isalnum(c) ==
    c \in { "a", "b", "c", "e", "f", "g", "i", "k", "l", "p",
            "0", "1", "2", "3", "4", "5", "6", "7", "8", "9" }

\* the characters _get_pf_name keeps
ValidChar(c) == isalnum(c) \/ c \in { ".", "_", "-", " " }

RECURSIVE ArgsPart(_)
ArgsPart(args) ==
    IF args = <<>> THEN <<>>
    ELSE <<"_">> \o str(Head(args)) \o ArgsPart(Tail(args))

\* kwargs: the keyword arguments in the order of the call, as <<key, value>>
RECURSIVE KwargsPart(_)
KwargsPart(kwargs) ==
    IF kwargs = <<>> THEN <<>>
    ELSE <<"_">> \o Head(kwargs)[1] \o <<"-">> \o str(Head(kwargs)[2]) \o KwargsPart(Tail(kwargs))

_get_pf_name(fname, args, kwargs) ==
    SelectSeq(fname \o ArgsPart(args) \o KwargsPart(kwargs) \o <<".", "p", "i", "c", "k", "l", "e">>,
              ValidChar)

\* the wrapped functions (by __name__), argument values and calls of the model
FuncNames == { <<"f">> }

ArgValues == { IntArg(1), StrArg(<<"1">>), StrArg(<<"1", "/">>) }

KwargLists == { <<>>, << <<(<<"k">>), IntArg(1)>> >> }

RECURSIVE TuplesUpTo(_, _)
TuplesUpTo(S, n) ==
    IF n = 0 THEN { <<>> }
    ELSE LET shorter == TuplesUpTo(S, n - 1)
         IN  shorter \cup { Append(s, x) : s \in shorter, x \in S }

CachedCalls ==
    { [fname |-> f, args |-> a, kwargs |-> k] :
        f \in FuncNames, a \in TuplesUpTo(ArgValues, MaxArgs), k \in KwargLists }

\* func(*args, **kwargs): the wrapped function's value, one per call
FuncValue(c) == <<"rv", c.fname, c.args, c.kwargs>>

\* pickle.dump(rv, pf) and pickle.load(pf)
pdump(rv) == <<"pickle", rv>>
pload(content) == content[2]

\* ------------------------------------------------------------ environment

\* read files a user configuration may name: two ordinary ones, one sharing
\* its base name with another, and two whose names are also names of files
\* the pipeline writes (an intermediate .bam file, a gzipped read file)
Reads == { <<"a", "fq">>, <<"b", "fq">>, <<"a", "fastq">>, <<"a", "bam">>, <<"a", "fq", "gz">> }

RECURSIVE SeqsUpTo(_, _)
SeqsUpTo(S, n) ==
    IF n = 0 THEN { <<>> }
    ELSE LET shorter == SeqsUpTo(S, n - 1)
         IN  shorter \cup { Append(s, x) : s \in shorter, x \in S }

ReadLists == SeqsUpTo(Reads, MaxInputs)

FullConfigs ==
    { ConfigMembers(reads, TemplateThreads, gz, rmsam, rmbam) :
        reads \in ReadLists, gz \in BOOLEAN, rmsam \in BOOLEAN, rmbam \in BOOLEAN }

\* a configuration file with one member left out ("fail where used")
DropMember(ms, n) == SubSeq(ms, 1, n - 1) \o SubSeq(ms, n + 1, Len(ms))

DeficientConfigs ==
    { DropMember(ConfigMembers(reads, TemplateThreads, TRUE, TRUE, TRUE), n) :
        reads \in { <<>>, << <<"a", "fq">> >> }, n \in 1..7 }

UserConfigs == FullConfigs \cup DeficientConfigs

UserConfigPath == <<"my", "json">>
MissingPath    == <<"nosuch", "json">>
DirPath        == <<"results">>

\* sys.argv, the program name first
Argvs ==
    { <<"prog">>, <<"prog", "--help">>, <<"prog", "--make-config">>,
      <<"prog", "--config">>, <<"prog", "--frobnicate">> }
    \cup { <<"prog", "--config", p>> :
             p \in { UserConfigPath, MissingPath, DirPath, <<"a", "fq">> } }

\* what hisat2 may print on its standard output: with or without the
\* "N.NN% overall alignment rate" line; the rate in hundredths of a percent,
\* 69.99 or 70.00
Rates == { AlignRateThreshold - 1, AlignRateThreshold }

Reports ==
    { [matched |-> FALSE, rate |-> 0] } \cup { [matched |-> TRUE, rate |-> r] : r \in Rates }

\* the files of the working directory before the first invocation
InitialFiles(members) ==
    LET reads == Reads \cup { TemplateReads[n] : n \in 1..Len(TemplateReads) }
    IN  [p \in reads \cup { UserConfigPath, DirPath } |->
            IF p = UserConfigPath THEN jdump(members)
            ELSE IF p = DirPath THEN <<"dir">>
            ELSE <<"reads", p>>]

\* ------------------------------------------------------------------ state

VARIABLES
    argv,       \* sys.argv of the running invocation
    runs,       \* how many invocations were started
    fs,         \* the working directory: path -> content
    fs0,        \* the working directory when the running invocation started
    pc,         \* where _main is: "start", "align", "view", "sort", "count", "done"
    exc,        \* the exception that ended _main, or NoExc
    usage,      \* whether _help_msg printed the usage text
    cfg,        \* the loaded configuration (a dict), or NoCfg
    i,          \* the position of the running stage's loop in its input list
    sams,       \* _hisat_2_align_seq_reads's list of .sam files
    bams,       \* _samtools_view's list of .bam files
    sort_bams,  \* _samtools_sort's list of sorted .bam files
    calls       \* the external tool invocations of this run, in order

VARIABLES
    rvcache,    \* the files of __rvcache__: file name -> content
    rvdir,      \* whether the directory __rvcache__ exists
    events      \* the calls of wrapped functions made so far, in order

cacheVars == <<rvcache, rvdir, events>>

VARIABLES
    n_colors,   \* get_colors' argument n_colors
    color_set,  \* get_colors' argument color_set
    cpc,        \* where get_colors is: "idle", "call", "zip", "return", "raise"
    cs,         \* the selected color set
    pos,        \* the position of the cycle(cs) iterator in cs
    colors,     \* the list the comprehension has built so far
    warned      \* whether warn() was called

colorVars == <<n_colors, color_set, cpc, cs, pos, colors, warned>>

\* what the pipeline leaves alone
notPipe == <<cacheVars, colorVars>>

pipeVars == <<argv, runs, fs, fs0, pc, exc, usage, cfg, i, sams, bams, sort_bams, calls>>

\* what a wrapped function's call leaves alone
notCache == <<pipeVars, colorVars>>

\* what get_colors leaves alone
notColors == <<pipeVars, cacheVars>>

NoCfg == <<>>
NoExc == [type |-> "none", msg |-> ""]
Raise(type, msg) == [type |-> type, msg |-> msg]

\* the exit status of the interpreter: 0 after a normal return and after
\* exit() (SystemExit(None)), 1 after an uncaught exception
ExitCode == IF exc.type \in { "none", "SystemExit" } THEN 0 ELSE 1

PipeInit ==
    /\ argv \in Argvs
    /\ runs = 1
    /\ \E members \in UserConfigs :
          /\ (Len(argv) < 3 \/ argv[3] # UserConfigPath)
                => members = ConfigMembers(<<>>, TemplateThreads, FALSE, FALSE, FALSE)
          /\ fs = InitialFiles(members)
    /\ fs0 = fs
    /\ pc = "start"
    /\ exc = NoExc
    /\ usage = FALSE
    /\ cfg = NoCfg
    /\ i = 1
    /\ sams = <<>>
    /\ bams = <<>>
    /\ sort_bams = <<>>
    /\ calls = <<>>

\* ------------------------------------------------------------------ _main

\* raise: _main ends with the exception; nothing else changes
Abort(type, msg) ==
    /\ exc' = Raise(type, msg)
    /\ pc' = "done"

\* (a _main that exits instead of raising, to test C3)
MainNoOptions_Exits ==
    /\ pc = "start"
    /\ Len(argv) < 2
    /\ usage' = TRUE
    /\ Abort("SystemExit", "")
    /\ UNCHANGED <<argv, runs, fs0, fs, cfg, i, sams, bams, sort_bams, calls, notPipe>>

MainNoOptions ==
    /\ pc = "start"
    /\ Len(argv) < 2
    /\ usage' = TRUE
    /\ Abort("ValueError", "_main: no options provided")
    /\ UNCHANGED <<argv, runs, fs0, fs, cfg, i, sams, bams, sort_bams, calls, notPipe>>

MainHelp ==
    /\ pc = "start"
    /\ Len(argv) >= 2
    /\ argv[2] = "--help"
    /\ usage' = TRUE
    /\ Abort("SystemExit", "")
    /\ UNCHANGED <<argv, runs, fs0, fs, cfg, i, sams, bams, sort_bams, calls, notPipe>>

\* (the template written to config.py, to test C10)
MainMakeConfig_WrongName ==
    /\ pc = "start"
    /\ Len(argv) >= 2
    /\ argv[2] = "--make-config"
    /\ fs' = WriteFile(fs, <<"config", "py">>, jdump(TemplateConfig))
    /\ Abort("SystemExit", "")
    /\ UNCHANGED <<argv, runs, fs0, usage, cfg, i, sams, bams, sort_bams, calls, notPipe>>

\* _make_sample_config_file, then exit()
MainMakeConfig ==
    /\ pc = "start"
    /\ Len(argv) >= 2
    /\ argv[2] = "--make-config"
    /\ fs' = WriteFile(fs, ConfigJson, jdump(TemplateConfig))
    /\ Abort("SystemExit", "")
    /\ UNCHANGED <<argv, runs, fs0, usage, cfg, i, sams, bams, sort_bams, calls, notPipe>>

MainConfigNoFile ==
    /\ pc = "start"
    /\ Len(argv) >= 2
    /\ argv[2] = "--config"
    /\ Len(argv) < 3
    /\ usage' = TRUE
    /\ Abort("ValueError", "_main: no configuration file provided")
    /\ UNCHANGED <<argv, runs, fs0, fs, cfg, i, sams, bams, sort_bams, calls, notPipe>>

\* (os.path.exists in the place of os.path.isfile, to test C4)
ConfigFound_Exists(f, config_file) == Exists(f, config_file)

\* _load_config: the file does not exist
ConfigFound(f, config_file) == isfile(f, config_file)

MainConfigNotFound ==
    /\ pc = "start"
    /\ Len(argv) >= 3
    /\ argv[2] = "--config"
    /\ ~ConfigFound(fs, argv[3])
    /\ Abort("ValueError", "_load_config: configuration file does not exist")
    /\ UNCHANGED <<argv, runs, fs0, fs, usage, cfg, i, sams, bams, sort_bams, calls, notPipe>>

\* _load_config: the file exists and is not JSON
MainConfigNotJson ==
    /\ pc = "start"
    /\ Len(argv) >= 3
    /\ argv[2] = "--config"
    /\ ConfigFound(fs, argv[3])
    /\ fs[argv[3]][1] # "json"
    /\ Abort("JSONDecodeError", "")
    /\ UNCHANGED <<argv, runs, fs0, fs, usage, cfg, i, sams, bams, sort_bams, calls, notPipe>>

\* _load_config returns the dict; _main goes on to the alignment
MainLoadConfig ==
    /\ pc = "start"
    /\ Len(argv) >= 3
    /\ argv[2] = "--config"
    /\ ConfigFound(fs, argv[3])
    /\ fs[argv[3]][1] = "json"
    /\ cfg' = jload(fs[argv[3]])
    /\ pc' = "align"
    /\ i' = 1
    /\ UNCHANGED <<argv, runs, fs0, fs, exc, usage, sams, bams, sort_bams, calls, notPipe>>

MainUnrecognized ==
    /\ pc = "start"
    /\ Len(argv) >= 2
    /\ argv[2] \notin { "--help", "--make-config", "--config" }
    /\ usage' = TRUE
    /\ Abort("ValueError", "_main: unrecognized option")
    /\ UNCHANGED <<argv, runs, fs0, fs, cfg, i, sams, bams, sort_bams, calls, notPipe>>

\* ------------------------------------------------------ external tools

\* subprocess.run of an external tool: the tool, the position of its input in
\* the stage's list, the command line, the exit code and, for hisat2, what it
\* printed
Call(tool, idx, cmd, rc, out) ==
    [tool |-> tool, idx |-> idx, cmd |-> cmd, rc |-> rc, out |-> out]

Silent == [matched |-> FALSE, rate |-> 0]

\* ' '.join(cmd) + '\n', and a tool's standard output, as pieces of a file
CmdLine(cmd) == <<"cmdline", cmd>>
StdOut(tool, out) == <<"stdout", tool, out>>

\* A file object of open(): what reached the file, and what write() left in
\* the object's buffer.  write() keeps a piece that fits the buffer and writes
\* a larger one through; a child process given the file as its stdout writes
\* to the file itself; close() flushes the buffer.
OpenW == [disk |-> <<>>, buf |-> <<>>]
FileWrite(h, piece, fits) ==
    IF fits THEN [h EXCEPT !.buf = Append(@, piece)]
    ELSE [h EXCEPT !.disk = @ \o h.buf \o <<piece>>, !.buf = <<>>]
ChildWrite(h, piece) == [h EXCEPT !.disk = Append(@, piece)]
FileClose(h) == <<"log", h.disk \o h.buf>>

\* ---------------------------------------------- _hisat_2_align_seq_reads

HisatCmd(input_fq) ==
    << "./hisat2", "-q", "-p", ToString(cfg[K_threads]), "--pen-noncansplice", "1000000",
       "-x", cfg[K_index], "-1", input_fq, "-2", input_fq, "-S", SamOf(input_fq) >>

\* (a gate one hundredth too low, to test C1)
BelowThreshold_Lax(align_rate) == align_rate < AlignRateThreshold - 1

\* (a gate that also rejects exactly 70.00, to test C16)
BelowThreshold_Strict(align_rate) == align_rate <= AlignRateThreshold

\* the quality gate: "if align_rate < 70: raise"
BelowThreshold(align_rate) == align_rate < AlignRateThreshold

\* the loop is at an input and the command line can be built
AlignReady ==
    /\ pc = "align"
    /\ Has(cfg, K_reads)
    /\ i <= Len(cfg[K_reads])
    /\ Has(cfg, K_threads)
    /\ Has(cfg, K_index)

\* the working directory once hisat2 has written its .sam file
AfterHisat(input_fq) == WriteFile(fs, SamOf(input_fq), <<"sam", input_fq>>)

\* ... and once the log file is written: the command line, then the output
AlignLog(input_fq, report) ==
    FileClose(FileWrite(FileWrite(OpenW, CmdLine(HisatCmd(input_fq)), TRUE),
                        StdOut("hisat2", report), TRUE))

AfterAlignLog(input_fq, report) ==
    WriteFile(AfterHisat(input_fq), LogOf(input_fq), AlignLog(input_fq, report))

\* (a _gzip_fq that leaves the read file, to test C7_Amended)
AfterGzip_NoRemove(f, fq) == WriteFile(f, GzOf(fq), <<"gz", f[fq]>>)

\* _gzip_fq(fq): the compressed copy, then os.remove
AfterGzip(f, fq) == RemoveFile(WriteFile(f, GzOf(fq), <<"gz", f[fq]>>), fq)

\* a configuration key is missing where the stage reads it, before any tool runs
AlignKeyError ==
    /\ pc = "align"
    /\ \/ ~Has(cfg, K_reads) /\ i = 1
       \/ /\ Has(cfg, K_reads)
          /\ i <= Len(cfg[K_reads])
          /\ ~(Has(cfg, K_threads) /\ Has(cfg, K_index))
    /\ Abort("KeyError", "")
    /\ UNCHANGED <<argv, runs, fs0, fs, usage, cfg, i, sams, bams, sort_bams, calls, notPipe>>

\* hisat2 returns a nonzero exit code; it may have left a .sam file
AlignToolFails ==
    /\ AlignReady
    /\ LET input_fq == cfg[K_reads][i] IN
       /\ \E wrote \in BOOLEAN :
             fs' = IF wrote THEN WriteFile(fs, SamOf(input_fq), <<"partial", input_fq>>) ELSE fs
       /\ calls' = Append(calls, Call("hisat2", i, HisatCmd(input_fq), 1, Silent))
    /\ Abort("RuntimeError", "_hisat_2_align_seq_reads: hisat2 returned with nonzero exit code")
    /\ UNCHANGED <<argv, runs, fs0, usage, cfg, i, sams, bams, sort_bams, notPipe>>

\* (an output without an alignment rate taken for an accepted alignment, to
\* test C12)
AlignNoPattern_Accepted ==
    /\ AlignReady
    /\ fs' = AfterAlignLog(cfg[K_reads][i], Silent)
    /\ calls' = Append(calls, Call("hisat2", i, HisatCmd(cfg[K_reads][i]), 0, Silent))
    /\ sams' = Append(sams, SamOf(cfg[K_reads][i]))
    /\ i' = i + 1
    /\ UNCHANGED <<argv, runs, fs0, pc, exc, usage, cfg, bams, sort_bams, notPipe>>

\* hisat2 returns 0 and its output has no alignment rate: search() is None
AlignNoPattern ==
    /\ AlignReady
    /\ LET input_fq == cfg[K_reads][i] IN
       /\ fs' = AfterHisat(input_fq)
       /\ calls' = Append(calls, Call("hisat2", i, HisatCmd(input_fq), 0, Silent))
    /\ Abort("AttributeError", "")
    /\ UNCHANGED <<argv, runs, fs0, usage, cfg, i, sams, bams, sort_bams, notPipe>>

\* (the log written before the gate is applied, to test C17)
AlignLowRate_Logged ==
    /\ AlignReady
    /\ LET input_fq == cfg[K_reads][i] IN
       \E report \in Reports :
          /\ report.matched
          /\ BelowThreshold(report.rate)
          /\ fs' = AfterAlignLog(input_fq, report)
          /\ calls' = Append(calls, Call("hisat2", i, HisatCmd(input_fq), 0, report))
    /\ Abort("RuntimeError", "_hisat_2_align_seq_reads: alignment rate is below 70% threshold")
    /\ UNCHANGED <<argv, runs, fs0, usage, cfg, i, sams, bams, sort_bams, notPipe>>

\* hisat2 returns 0 and the rate is under the threshold
AlignLowRate ==
    /\ AlignReady
    /\ LET input_fq == cfg[K_reads][i] IN
       \E report \in Reports :
          /\ report.matched
          /\ BelowThreshold(report.rate)
          /\ fs' = AfterHisat(input_fq)
          /\ calls' = Append(calls, Call("hisat2", i, HisatCmd(input_fq), 0, report))
    /\ Abort("RuntimeError", "_hisat_2_align_seq_reads: alignment rate is below 70% threshold")
    /\ UNCHANGED <<argv, runs, fs0, usage, cfg, i, sams, bams, sort_bams, notPipe>>

\* (the .sam file put at the front of the list, to test C5)
AlignAccepted_Prepend(report) ==
    /\ AlignReady
    /\ report \in Reports
    /\ report.matched
    /\ ~BelowThreshold(report.rate)
    /\ calls' = Append(calls, Call("hisat2", i, HisatCmd(cfg[K_reads][i]), 0, report))
    /\ sams' = <<SamOf(cfg[K_reads][i])>> \o sams

\* the alignment is accepted: the log is written and the .sam file recorded
AlignAccepted(report) ==
    /\ AlignReady
    /\ report \in Reports
    /\ report.matched
    /\ ~BelowThreshold(report.rate)
    /\ calls' = Append(calls, Call("hisat2", i, HisatCmd(cfg[K_reads][i]), 0, report))
    /\ sams' = Append(sams, SamOf(cfg[K_reads][i]))

\* ... and the loop goes on with the next input, the read file gzipped if asked
AlignOk ==
    \E report \in Reports :
       /\ AlignAccepted(report)
       /\ Has(cfg, K_gzip)
       /\ LET input_fq == cfg[K_reads][i]
              logged == AfterAlignLog(input_fq, report)
          IN  /\ cfg[K_gzip] => Exists(logged, input_fq)
              /\ fs' = IF cfg[K_gzip] THEN AfterGzip(logged, input_fq) ELSE logged
       /\ i' = i + 1
       /\ UNCHANGED <<argv, runs, fs0, pc, exc, usage, cfg, bams, sort_bams, notPipe>>

\* ... but "gzip_fq_after_alignment" is not in the configuration
AlignGzipKeyError ==
    \E report \in Reports :
       /\ AlignAccepted(report)
       /\ ~Has(cfg, K_gzip)
       /\ fs' = AfterAlignLog(cfg[K_reads][i], report)
       /\ Abort("KeyError", "")
       /\ UNCHANGED <<argv, runs, fs0, usage, cfg, i, bams, sort_bams, notPipe>>

\* ... but the read file to gzip is gone: open(fq, 'rb') fails
AlignGzipError ==
    \E report \in Reports :
       /\ AlignAccepted(report)
       /\ Has(cfg, K_gzip)
       /\ cfg[K_gzip]
       /\ ~Exists(AfterAlignLog(cfg[K_reads][i], report), cfg[K_reads][i])
       /\ fs' = AfterAlignLog(cfg[K_reads][i], report)
       /\ Abort("FileNotFoundError", "")
       /\ UNCHANGED <<argv, runs, fs0, usage, cfg, i, bams, sort_bams, notPipe>>

\* return sams; _main calls _samtools_view(sams, cfg)
AlignDone ==
    /\ pc = "align"
    /\ Has(cfg, K_reads)
    /\ i > Len(cfg[K_reads])
    /\ pc' = "view"
    /\ i' = 1
    /\ UNCHANGED <<argv, runs, fs0, fs, exc, usage, cfg, sams, bams, sort_bams, calls, notPipe>>

\* ---------------------------------------------------------- _samtools_view

ViewCmd(input_sam) ==
    << "./samtools", "view", "-b", "--threads", ToString(cfg[K_threads]), input_sam >>

ViewReady ==
    /\ pc = "view"
    /\ i <= Len(sams)
    /\ Has(cfg, K_threads)

\* (a samtools view whose exit code is not looked at, to test C2)
ViewToolFails_Ignored ==
    /\ pc = "view"
    /\ i <= Len(sams)
    /\ fs' = WriteFile(fs, BamOf(sams[i]), <<"partial", sams[i]>>)
    /\ calls' = Append(calls, Call("samtools view", i, ViewCmd(sams[i]), 1, Silent))
    /\ bams' = Append(bams, BamOf(sams[i]))
    /\ i' = i + 1
    /\ UNCHANGED <<argv, runs, fs0, pc, exc, usage, cfg, sams, sort_bams, notPipe>>

\* ("max_cpu_threads" is in the configuration here: the alignment of the
\* input this .sam file comes from has read it)
ViewToolFails ==
    /\ ViewReady
    /\ fs' = WriteFile(fs, BamOf(sams[i]), <<"partial", sams[i]>>)
    /\ calls' = Append(calls, Call("samtools view", i, ViewCmd(sams[i]), 1, Silent))
    /\ Abort("RuntimeError", "_samtools_view: samtools view returned with nonzero exit code")
    /\ UNCHANGED <<argv, runs, fs0, usage, cfg, i, sams, bams, sort_bams, notPipe>>

\* the working directory once samtools view has filled the .bam file
AfterView(input_sam) == WriteFile(fs, BamOf(input_sam), <<"bam", input_sam>>)

ViewConverted ==
    /\ ViewReady
    /\ calls' = Append(calls, Call("samtools view", i, ViewCmd(sams[i]), 0, Silent))
    /\ bams' = Append(bams, BamOf(sams[i]))

ViewOk ==
    /\ ViewConverted
    /\ Has(cfg, K_rmsam)
    /\ cfg[K_rmsam] => Exists(AfterView(sams[i]), sams[i])
    /\ fs' = IF cfg[K_rmsam] THEN RemoveFile(AfterView(sams[i]), sams[i]) ELSE AfterView(sams[i])
    /\ i' = i + 1
    /\ UNCHANGED <<argv, runs, fs0, pc, exc, usage, cfg, sams, sort_bams, notPipe>>

ViewRmKeyError ==
    /\ ViewConverted
    /\ ~Has(cfg, K_rmsam)
    /\ fs' = AfterView(sams[i])
    /\ Abort("KeyError", "")
    /\ UNCHANGED <<argv, runs, fs0, usage, cfg, i, sams, sort_bams, notPipe>>

\* os.remove(input_sam) of a file that is gone
ViewRemoveError ==
    /\ ViewConverted
    /\ Has(cfg, K_rmsam)
    /\ cfg[K_rmsam]
    /\ ~Exists(AfterView(sams[i]), sams[i])
    /\ fs' = AfterView(sams[i])
    /\ Abort("FileNotFoundError", "")
    /\ UNCHANGED <<argv, runs, fs0, usage, cfg, i, sams, sort_bams, notPipe>>

\* return bams; _main calls _samtools_sort(bams, cfg)
ViewDone ==
    /\ pc = "view"
    /\ i > Len(sams)
    /\ pc' = "sort"
    /\ i' = 1
    /\ UNCHANGED <<argv, runs, fs0, fs, exc, usage, cfg, sams, bams, sort_bams, calls, notPipe>>

\* ---------------------------------------------------------- _samtools_sort

SortCmd(input_bam) ==
    << "./samtools", "sort", "-b", "--threads", ToString(cfg[K_threads]), input_bam,
       "-o", SortOf(input_bam) >>

SortReady ==
    /\ pc = "sort"
    /\ i <= Len(bams)
    /\ Has(cfg, K_threads)

\* (a failing samtools sort after which the sorted files made so far are
\* removed, to test C13)
SortToolFails_Rollback ==
    /\ SortReady
    /\ fs' = [p \in DOMAIN fs \ { sort_bams[j] : j \in 1..Len(sort_bams) } |-> fs[p]]
    /\ calls' = Append(calls, Call("samtools sort", i, SortCmd(bams[i]), 1, Silent))
    /\ Abort("RuntimeError", "_samtools_sort: samtools sort returned with nonzero exit code")
    /\ UNCHANGED <<argv, runs, fs0, usage, cfg, i, sams, bams, sort_bams, notPipe>>

\* samtools sort returns a nonzero exit code; it may have left an output file
SortToolFails ==
    /\ SortReady
    /\ \E wrote \in BOOLEAN :
          fs' = IF wrote THEN WriteFile(fs, SortOf(bams[i]), <<"partial", bams[i]>>) ELSE fs
    /\ calls' = Append(calls, Call("samtools sort", i, SortCmd(bams[i]), 1, Silent))
    /\ Abort("RuntimeError", "_samtools_sort: samtools sort returned with nonzero exit code")
    /\ UNCHANGED <<argv, runs, fs0, usage, cfg, i, sams, bams, sort_bams, notPipe>>

AfterSort(input_bam) == WriteFile(fs, SortOf(input_bam), <<"sortbam", input_bam>>)

SortSorted ==
    /\ SortReady
    /\ calls' = Append(calls, Call("samtools sort", i, SortCmd(bams[i]), 0, Silent))
    /\ sort_bams' = Append(sort_bams, SortOf(bams[i]))

SortOk ==
    /\ SortSorted
    /\ Has(cfg, K_rmbam)
    /\ cfg[K_rmbam] => Exists(AfterSort(bams[i]), bams[i])
    /\ fs' = IF cfg[K_rmbam] THEN RemoveFile(AfterSort(bams[i]), bams[i]) ELSE AfterSort(bams[i])
    /\ i' = i + 1
    /\ UNCHANGED <<argv, runs, fs0, pc, exc, usage, cfg, sams, bams, notPipe>>

SortRmKeyError ==
    /\ SortSorted
    /\ ~Has(cfg, K_rmbam)
    /\ fs' = AfterSort(bams[i])
    /\ Abort("KeyError", "")
    /\ UNCHANGED <<argv, runs, fs0, usage, cfg, i, sams, bams, notPipe>>

\* os.remove(input_bam) of a file that is gone
SortRemoveError ==
    /\ SortSorted
    /\ Has(cfg, K_rmbam)
    /\ cfg[K_rmbam]
    /\ ~Exists(AfterSort(bams[i]), bams[i])
    /\ fs' = AfterSort(bams[i])
    /\ Abort("FileNotFoundError", "")
    /\ UNCHANGED <<argv, runs, fs0, usage, cfg, i, sams, bams, notPipe>>

\* return sort_bams; _main calls _featurecounts_all_samples(sort_bams, cfg)
SortDone ==
    /\ pc = "sort"
    /\ i > Len(bams)
    /\ pc' = "count"
    /\ i' = 1
    /\ UNCHANGED <<argv, runs, fs0, fs, exc, usage, cfg, sams, bams, sort_bams, calls, notPipe>>

\* ----------------------------------------------- _featurecounts_all_samples

\* (the sorted files passed in reverse order, to test C15)
CountCmd_Reversed ==
    << "./featureCounts", "-p", "-t", "exon", "-a", cfg[K_gtf], "-g", "gene_name",
       "-T", ToString(cfg[K_threads]), "-o", "features.txt" >>
    \o [k \in 1..Len(sort_bams) |-> sort_bams[Len(sort_bams) + 1 - k]]

CountCmd ==
    << "./featureCounts", "-p", "-t", "exon", "-a", cfg[K_gtf], "-g", "gene_name",
       "-T", ToString(cfg[K_threads]), "-o", "features.txt" >> \o sort_bams

\* features.log as the with-block leaves it: f.write(cmd_str) into the file
\* object, then run(cmd, stdout=f), then the close at the end of the block
\* (also when the block is left by the raise)
FeaturesLogWritten(fits) ==
    FileClose(ChildWrite(FileWrite(OpenW, CmdLine(CountCmd), fits),
                         StdOut("featureCounts", Silent)))

\* open('features.log', 'wb') has made the file when the command line is built
CountKeyError ==
    /\ pc = "count"
    /\ ~(Has(cfg, K_gtf) /\ Has(cfg, K_threads))
    /\ fs' = WriteFile(fs, FeaturesLog, FileClose(OpenW))
    /\ Abort("KeyError", "")
    /\ UNCHANGED <<argv, runs, fs0, usage, cfg, i, sams, bams, sort_bams, calls, notPipe>>

\* featureCounts returns a nonzero exit code; it may have left features.txt.
\* Whether the command line fits the file object's buffer depends on its
\* length in bytes, which the model does not hold.
CountToolFails ==
    /\ pc = "count"
    /\ Has(cfg, K_gtf) /\ Has(cfg, K_threads)
    /\ \E fits \in BOOLEAN, wrote \in BOOLEAN :
          LET logged == WriteFile(fs, FeaturesLog, FeaturesLogWritten(fits))
          IN  fs' = IF wrote THEN WriteFile(logged, FeaturesTxt, <<"partial", sort_bams>>)
                    ELSE logged
    /\ calls' = Append(calls, Call("featureCounts", 1, CountCmd, 1, Silent))
    /\ Abort("RuntimeError", "_featurecounts_all_samples: featureCounts returned with nonzero exit code")
    /\ UNCHANGED <<argv, runs, fs0, usage, cfg, i, sams, bams, sort_bams, notPipe>>

\* featureCounts returns 0; _main returns
CountOk ==
    /\ pc = "count"
    /\ Has(cfg, K_gtf) /\ Has(cfg, K_threads)
    /\ \E fits \in BOOLEAN :
          fs' = WriteFile(WriteFile(fs, FeaturesLog, FeaturesLogWritten(fits)),
                          FeaturesTxt, <<"counts", sort_bams>>)
    /\ calls' = Append(calls, Call("featureCounts", 1, CountCmd, 0, Silent))
    /\ pc' = "done"
    /\ UNCHANGED <<argv, runs, fs0, exc, usage, cfg, i, sams, bams, sort_bams, notPipe>>

\* ------------------------------------------------------- a second invocation

\* the user runs the script again on the file --make-config has written
Reinvoke ==
    /\ pc = "done"
    /\ runs = 1
    /\ argv = <<"prog", "--make-config">>
    /\ argv' = <<"prog", "--config", ConfigJson>>
    /\ runs' = 2
    /\ pc' = "start"
    /\ exc' = NoExc
    /\ usage' = FALSE
    /\ cfg' = NoCfg
    /\ i' = 1
    /\ sams' = <<>>
    /\ bams' = <<>>
    /\ sort_bams' = <<>>
    /\ calls' = <<>>
    /\ fs0' = fs
    /\ UNCHANGED <<fs, notPipe>>

\* ------------------------------------------------------ cached_rv.wrapper

\* the cache file of a call
PfName(c) == _get_pf_name(c.fname, c.args, c.kwargs)

\* os.path.isfile(pf_path)
Cached(c) == PfName(c) \in DOMAIN rvcache

Event(c, ran, rv) == [call |-> c, ran |-> ran, rv |-> rv]

\* no wrapped function is called in a behaviour of the pipeline
CacheIdle ==
    /\ rvcache = <<>>
    /\ rvdir = FALSE
    /\ events = <<>>

\* the cache file exists: the wrapped function is not run, the file is loaded
CachedCallHit(c) ==
    /\ Len(events) < MaxCalls
    /\ Cached(c)
    /\ events' = Append(events, Event(c, FALSE, pload(rvcache[PfName(c)])))
    /\ UNCHANGED <<rvcache, rvdir, notCache>>

\* no cache file: the wrapped function runs and its value is stored
CachedCallMiss(c) ==
    /\ Len(events) < MaxCalls
    /\ ~Cached(c)
    /\ rvdir' = TRUE
    /\ rvcache' = WriteFile(rvcache, PfName(c), pdump(FuncValue(c)))
    /\ events' = Append(events, Event(c, TRUE, FuncValue(c)))
    /\ UNCHANGED notCache

\* -------------------------------------------------------------- plotting.py

\* color_sets of get_colors; the fifth entry of 'seq7' has five hex digits in
\* the source
color_sets ==
    [name \in { "nonseq7", "seq7" } |->
        IF name = "nonseq7"
        THEN <<"#780B51", "#23E391", "#4D119D", "#FFB359", "#FF85C3", "#196DC1", "#8FF63B">>
        ELSE <<"#0A2F51", "#0F596B", "#16837A", "#1D9A6C", "#3B544", "#92CB5D", "#DEDB85">>]

\* the color_set arguments of the calls: the two defined names and one that is
\* not defined
ColorSetNames == { "nonseq7", "seq7", "seq9" }

\* itertools.cycle after the last element of a sequence of length len
CycleNext_Stuck(p, len) == IF p = len THEN len ELSE p + 1

\* itertools.cycle: the position after yielding the element at position p of a
\* sequence of length len; after the last element it starts over
CycleNext(p, len) == IF p = len THEN 1 ELSE p + 1

\* get_colors is not called in a behaviour of the pipeline or of the cache
ColorsIdle ==
    /\ n_colors = 0
    /\ color_set = "nonseq7"
    /\ cpc = "idle"
    /\ cs = <<>>
    /\ pos = 1
    /\ colors = <<>>
    /\ warned = FALSE

\* a call get_colors(n_colors, color_set)
ColorsCalled ==
    /\ n_colors \in 0..MaxColors
    /\ color_set \in ColorSetNames
    /\ cpc = "call"
    /\ cs = <<>>
    /\ pos = 1
    /\ colors = <<>>
    /\ warned = FALSE

\* color_set is not a key of color_sets: ValueError
GetColorsUndefined ==
    /\ cpc = "call"
    /\ color_set \notin DOMAIN color_sets
    /\ cpc' = "raise"
    /\ UNCHANGED <<n_colors, color_set, cs, pos, colors, warned, notColors>>

\* the color set is selected, the warning is given when it has fewer levels
\* than n_colors, and zip gets range(n_colors) and a fresh cycle(cs)
GetColorsSelect ==
    /\ cpc = "call"
    /\ color_set \in DOMAIN color_sets
    /\ cs' = color_sets[color_set]
    /\ warned' = (n_colors > Len(color_sets[color_set]))
    /\ pos' = 1
    /\ cpc' = "zip"
    /\ UNCHANGED <<n_colors, color_set, colors, notColors>>

\* zip yields a pair: the next n of range(n_colors) and the next c of the
\* cycle; the comprehension keeps c
GetColorsZip ==
    /\ cpc = "zip"
    /\ Len(colors) < n_colors
    /\ colors' = Append(colors, cs[pos])
    /\ pos' = CycleNext(pos, Len(cs))
    /\ UNCHANGED <<n_colors, color_set, cpc, cs, warned, notColors>>

\* range(n_colors) is exhausted: zip stops and the list is returned
GetColorsReturn ==
    /\ cpc = "zip"
    /\ Len(colors) >= n_colors
    /\ cpc' = "return"
    /\ UNCHANGED <<n_colors, color_set, cs, pos, colors, warned, notColors>>

\* ---------------------------------------------------------- specification

vars == <<pipeVars, cacheVars, colorVars>>

Init == PipeInit /\ CacheIdle /\ ColorsIdle

Next ==
    \/ MainNoOptions \/ MainHelp \/ MainMakeConfig \/ MainConfigNoFile
    \/ MainConfigNotFound \/ MainConfigNotJson \/ MainLoadConfig \/ MainUnrecognized
    \/ AlignKeyError \/ AlignToolFails \/ AlignNoPattern \/ AlignLowRate
    \/ AlignOk \/ AlignGzipKeyError \/ AlignGzipError \/ AlignDone
    \/ ViewToolFails \/ ViewOk \/ ViewRmKeyError \/ ViewRemoveError \/ ViewDone
    \/ SortToolFails \/ SortOk \/ SortRmKeyError \/ SortRemoveError \/ SortDone
    \/ CountKeyError \/ CountToolFails \/ CountOk
    \/ Reinvoke

Spec == Init /\ [][Next]_vars

\* a script calling wrapped functions in a fresh working directory; the
\* pipeline is not run
PipeIdle ==
    /\ argv = <<"prog">>
    /\ runs = 0
    /\ fs = <<>>
    /\ fs0 = <<>>
    /\ pc = "done"
    /\ exc = NoExc
    /\ usage = FALSE
    /\ cfg = NoCfg
    /\ i = 1
    /\ sams = <<>>
    /\ bams = <<>>
    /\ sort_bams = <<>>
    /\ calls = <<>>

CacheInit == PipeIdle /\ CacheIdle /\ ColorsIdle

CacheNext == \E c \in CachedCalls : CachedCallHit(c) \/ CachedCallMiss(c)

SpecCache == CacheInit /\ [][CacheNext]_vars

\* a script calling get_colors; neither the pipeline nor a wrapped function
\* is run
ColorsInit == PipeIdle /\ CacheIdle /\ ColorsCalled

ColorsNext ==
    \/ GetColorsUndefined \/ GetColorsSelect \/ GetColorsZip \/ GetColorsReturn

SpecColors == ColorsInit /\ [][ColorsNext]_vars

\* ===================================================================== claims

\* ---- helpers of the claims

ConfigRun == Len(argv) >= 3 /\ argv[2] = "--config"

\* the run went through all four stages and _main returned
SuccessfulRun == ConfigRun /\ pc = "done" /\ exc = NoExc

StageOf(tool) ==
    CASE tool = "hisat2" -> 1
      [] tool = "samtools view" -> 2
      [] tool = "samtools sort" -> 3
      [] tool = "featureCounts" -> 4

CallsOf(tool) == { n \in 1..Len(calls) : calls[n].tool = tool }

\* hisat2 returned 0 and reported a rate strictly under 70.00
LowRateCall(n) ==
    /\ calls[n].tool = "hisat2"
    /\ calls[n].rc = 0
    /\ calls[n].out.matched
    /\ calls[n].out.rate < 7000

\* an invocation that failed: a nonzero exit code or, for hisat2, no rate in
\* the output or a rate under the threshold
FailedCall(n) ==
    \/ calls[n].rc # 0
    \/ calls[n].tool = "hisat2" /\ (~calls[n].out.matched \/ calls[n].out.rate < 7000)

\* ---- C1
\* C1: once hisat2 has reported an alignment rate strictly under 70.00 for an
\* input of a --config run, the run has ended with an error; that invocation
\* is the last one of the run, so no samtools view, samtools sort or
\* featureCounts invocation exists; no .bam, sorted .bam or count file has
\* been produced, and every .sam file produced was produced for an input at
\* or before the failing one.
C1_LowRateAborts ==
    \A n \in 1..Len(calls) :
       LowRateCall(n) =>
          /\ ConfigRun
          /\ pc = "done"
          /\ exc.type = "RuntimeError"
          /\ n = Len(calls)
          /\ \A m \in 1..Len(calls) : calls[m].tool = "hisat2" /\ calls[m].idx <= calls[n].idx
          /\ \A p \in DOMAIN fs :
                /\ fs[p][1] \notin { "bam", "sortbam", "counts", "empty" }
                /\ fs[p][1] \in { "sam", "partial" } =>
                      \E k \in 1..calls[n].idx :
                         /\ cfg[K_reads][k] = fs[p][2]
                         /\ p = Append(splitext(cfg[K_reads][k]), "sam")

\* the gate has failed on the second of three inputs
C1_Witness ==
    /\ Len(calls) = 2
    /\ LowRateCall(2)
    /\ calls[2].idx = 2
    /\ Len(cfg[K_reads]) = 3
    /\ pc = "done"

\* ---- C2
\* C2: the tools are invoked stage by stage, hisat2, samtools view, samtools
\* sort, featureCounts: within a stage the inputs are taken once each, in
\* order; a tool of a later stage is invoked only when the stage before has
\* made one successful invocation per input; and a failed invocation is the
\* last invocation of the run, which has ended with the error.
C2_StagesInOrder ==
    /\ \A m, n \in 1..Len(calls) :
          m < n => StageOf(calls[m].tool) <= StageOf(calls[n].tool)
    /\ \A n \in 1..Len(calls) :
          /\ n > 1 /\ calls[n - 1].tool = calls[n].tool => calls[n].idx = calls[n - 1].idx + 1
          /\ (n = 1 \/ calls[n - 1].tool # calls[n].tool) => calls[n].idx = 1
          /\ FailedCall(n) => n = Len(calls) /\ pc = "done" /\ exc # NoExc
    /\ CallsOf("samtools view") # {} =>
          Cardinality(CallsOf("hisat2")) = Len(cfg[K_reads])
    /\ CallsOf("samtools sort") # {} =>
          Cardinality(CallsOf("samtools view")) = Len(cfg[K_reads])
    /\ CallsOf("featureCounts") # {} =>
          /\ Cardinality(CallsOf("hisat2")) = Len(cfg[K_reads])
          /\ Cardinality(CallsOf("samtools view")) = Len(cfg[K_reads])
          /\ Cardinality(CallsOf("samtools sort")) = Len(cfg[K_reads])
          /\ Cardinality(CallsOf("featureCounts")) = 1

\* samtools view has failed on the second of three inputs
C2_Witness ==
    /\ Len(calls) = 5
    /\ calls[5].tool = "samtools view"
    /\ calls[5].rc # 0
    /\ calls[5].idx = 2
    /\ pc = "done"

\* ---- C3
\* C3 as stated: after --help and after an invocation with no arguments the
\* usage text is printed and the exit status is not that of a successful run.
C3_Original ==
    (pc = "done" /\ (Len(argv) < 2 \/ argv = <<"prog", "--help">>)) =>
        usage /\ ExitCode # 0

\* C3 as amended: an invocation with no arguments prints the usage text and
\* ends with a ValueError, an exit status other than the 0 of a successful
\* run; --help prints the usage text and exits with status 0, the status of a
\* successful run.
C3_Amended ==
    /\ (pc = "done" /\ Len(argv) < 2) =>
          usage /\ exc.type = "ValueError" /\ ExitCode # 0
    /\ (pc = "done" /\ argv = <<"prog", "--help">>) =>
          usage /\ exc.type = "SystemExit" /\ ExitCode = 0
    /\ SuccessfulRun => ExitCode = 0

C3_Witness == pc = "done" /\ Len(argv) < 2 /\ usage

\* ---- C4
\* C4: in a run given --config and a path that is not an existing file, no
\* tool is ever invoked, no configuration is loaded and the working directory
\* stays as it was; the run ends with the ValueError of _load_config.
C4_ConfigNotFound ==
    (ConfigRun /\ ~(argv[3] \in DOMAIN fs0 /\ fs0[argv[3]][1] # "dir")) =>
        /\ calls = <<>>
        /\ cfg = NoCfg
        /\ fs = fs0
        /\ pc \in { "start", "done" }
        /\ pc = "done" =>
              exc = Raise("ValueError", "_load_config: configuration file does not exist")

\* the path names a directory
C4_Witness == ConfigRun /\ argv[3] = DirPath /\ pc = "done"

\* ---- C5
\* C5: while the alignment runs, sams holds the .sam path of each input done
\* so far, in input order; once it has returned, sams has one path per input,
\* the n-th being the n-th input's base name + '.sam'.  The same holds from
\* sams to bams ('.bam') and from bams to sort_bams ('.sort.bam').
C5_OrderPreserved ==
    LET Derived(list, ext, n) == [k \in 1..n |-> splitext(list[k]) \o ext]
    IN  /\ pc = "align" /\ Has(cfg, K_reads) =>
              sams = Derived(cfg[K_reads], <<"sam">>, i - 1)
        /\ (pc \in { "view", "sort", "count" } \/ SuccessfulRun) =>
              sams = Derived(cfg[K_reads], <<"sam">>, Len(cfg[K_reads]))
        /\ pc = "view" => bams = Derived(sams, <<"bam">>, i - 1)
        /\ (pc \in { "sort", "count" } \/ SuccessfulRun) =>
              bams = Derived(sams, <<"bam">>, Len(sams))
        /\ pc = "sort" => sort_bams = Derived(bams, <<"sort", "bam">>, i - 1)
        /\ (pc = "count" \/ SuccessfulRun) =>
              sort_bams = Derived(bams, <<"sort", "bam">>, Len(bams))

\* three inputs, two of them with one base name, have gone through the sort
C5_Witness ==
    /\ pc = "count"
    /\ cfg[K_reads] = << <<"b", "fq">>, <<"a", "fq">>, <<"a", "fastq">> >>
    /\ sort_bams = << <<"b", "sort", "bam">>, <<"a", "sort", "bam">>, <<"a", "sort", "bam">> >>

\* ---- C6
\* C6: once featureCounts has been invoked, with either exit code,
\* features.log holds the command line first and the tool's output after it.
C6_CmdLineFirst ==
    CallsOf("featureCounts") # {} =>
        /\ FeaturesLog \in DOMAIN fs
        /\ fs[FeaturesLog] =
              <<"log", << CmdLine(calls[Len(calls)].cmd), StdOut("featureCounts", Silent) >> >>

\* ---- C7
\* the paths a run of the pipeline writes, for a list of read files
PipelineWrites(reads, gzip) ==
    { FeaturesLog, FeaturesTxt }
    \cup UNION { { SamOf(reads[k]), LogOf(reads[k]), BamOf(SamOf(reads[k])),
                   SortOf(BamOf(SamOf(reads[k]))) } : k \in 1..Len(reads) }
    \cup (IF gzip THEN { GzOf(reads[k]) : k \in 1..Len(reads) } ELSE {})

\* no configured read file is also a file the pipeline writes
NoCollision ==
    \A n \in 1..Len(cfg[K_reads]) :
       cfg[K_reads][n] \notin PipelineWrites(cfg[K_reads], cfg[K_gzip])

\* C7 as stated: after a successful run, every configured read file is still
\* there and not compressed if gzip_fq_after_alignment is off, and is gone
\* with <name>.gz in its place if it is on, whatever the other two flags.
C7_Original ==
    SuccessfulRun =>
        \A n \in 1..Len(cfg[K_reads]) :
           LET fq == cfg[K_reads][n]
           IN  IF cfg[K_gzip]
               THEN fq \notin DOMAIN fs /\ GzOf(fq) \in DOMAIN fs /\ fs[GzOf(fq)][1] = "gz"
               ELSE fq \in DOMAIN fs /\ fs[fq][1] # "gz"

\* (what does hold) the same, for a configuration none of whose read files is
\* also a file the pipeline writes (the .sam, .align.log, .bam or .sort.bam
\* file of an input, the .gz file of an input when gzipping is on,
\* features.log, features.txt): with the flag off every read file is there
\* with the content it had; with it on every read file is gone and <name>.gz
\* holds its compressed content.
C7_Amended ==
    (SuccessfulRun /\ NoCollision) =>
        \A n \in 1..Len(cfg[K_reads]) :
           LET fq == cfg[K_reads][n]
           IN  IF cfg[K_gzip]
               THEN /\ fq \notin DOMAIN fs
                    /\ GzOf(fq) \in DOMAIN fs
                    /\ fs[GzOf(fq)] = <<"gz", fs0[fq]>>
               ELSE /\ fq \in DOMAIN fs
                    /\ fs[fq] = fs0[fq]

\* a successful run that gzipped two read files and removed the .sam and
\* .bam files
C7_Witness ==
    /\ SuccessfulRun
    /\ runs = 1
    /\ NoCollision
    /\ Len(cfg[K_reads]) = 2
    /\ cfg[K_gzip] /\ cfg[K_rmsam] /\ cfg[K_rmbam]

\* ---- C8
StageKeys == { K_reads, K_threads, K_index, K_gtf, K_gzip, K_rmsam, K_rmbam }

\* C8: in the run on the file --make-config has written, the configuration
\* is found and parsed; the dict holds every key a stage reads, with the
\* template's values; and no KeyError ends the run.
C8_RoundTrip ==
    runs = 2 =>
        /\ argv = <<"prog", "--config", ConfigJson>>
        /\ exc.type \notin { "KeyError", "JSONDecodeError", "ValueError" }
        /\ pc # "start" =>
              /\ StageKeys \subseteq DOMAIN cfg
              /\ cfg[K_reads] = TemplateReads
              /\ cfg[K_threads] = 16
              /\ cfg[K_index] = "index/genome"
              /\ cfg[K_gtf] = "annotation.gtf"
              /\ cfg[K_gzip] /\ cfg[K_rmsam] /\ cfg[K_rmbam]

\* the run on the template has gone through all four stages
C8_Witness ==
    /\ runs = 2
    /\ pc = "done"
    /\ exc = NoExc
    /\ Len(sort_bams) = 8
    /\ CallsOf("featureCounts") # {}

\* ---- C9
\* C9: of the calls of one wrapped function, the first with given arguments
\* runs the function and stores its value, and every later call with the
\* same arguments returns that value without running the function.
C9_RunsOncePerCall ==
    \A n \in 1..Len(events) :
       LET earlier == { m \in 1..(n - 1) : events[m].call = events[n].call }
       IN  IF earlier = {}
           THEN events[n].ran /\ events[n].rv = FuncValue(events[n].call)
           ELSE ~events[n].ran /\ \A m \in earlier : events[n].rv = events[m].rv

\* ---- C10
\* C10: --help and --make-config end with exit status 0, load no
\* configuration and invoke no tool; --help leaves the working directory as
\* it was, --make-config changes config.json alone, which holds the template.
C10_HelpAndMakeConfig ==
    (runs = 1 /\ argv \in { <<"prog", "--help">>, <<"prog", "--make-config">> }) =>
        /\ calls = <<>>
        /\ DOMAIN cfg = {}
        /\ pc \in { "start", "done" }
        /\ pc = "done" =>
              /\ ExitCode = 0
              /\ exc.type = "SystemExit"
              /\ IF argv[2] = "--help"
                 THEN fs = fs0
                 ELSE /\ DOMAIN fs = DOMAIN fs0 \cup { <<"config", "json">> }
                      /\ \A p \in DOMAIN fs0 \ { <<"config", "json">> } : fs[p] = fs0[p]
                      /\ fs[<<"config", "json">>][1] = "json"
                      /\ jload(fs[<<"config", "json">>])[K_reads] = TemplateReads

C10_Witness ==
    /\ runs = 1
    /\ pc = "done"
    /\ argv = <<"prog", "--make-config">>
    /\ <<"config", "json">> \in DOMAIN fs

\* ---- C11
\* C11: when get_colors has returned for a defined color set of L colors, the
\* list holds exactly n_colors entries and its i-th entry (0-based) is entry
\* i mod L of that color set, also for n_colors = 0 and for n_colors > L; for
\* an undefined color set name the call raises ValueError, and it never
\* selects a color set, yields a color or returns.
C11_CyclesInOrder ==
    /\ cpc = "return" =>
          /\ color_set \in DOMAIN color_sets
          /\ Len(colors) = n_colors
          /\ \A k \in 0..(n_colors - 1) :
                colors[k + 1] = color_sets[color_set][(k % Len(color_sets[color_set])) + 1]
    /\ cpc = "raise" => color_set \notin DOMAIN color_sets
    /\ color_set \notin DOMAIN color_sets =>
          cpc \in { "idle", "call", "raise" } /\ colors = <<>> /\ cs = <<>>

\* get_colors returned more than twice as many colors as 'seq7' has
C11_Witness ==
    /\ cpc = "return"
    /\ color_set = "seq7"
    /\ n_colors > 2 * Len(color_sets["seq7"])
    /\ Len(colors) = n_colors

\* ---- C12
\* C12: an input's .sam path is recorded only for a hisat2 invocation that
\* returned 0 and whose output holds the alignment rate; once hisat2 has
\* returned 0 with an output that holds no rate, the run has ended with an
\* error (exit status 1), that invocation is the last one of the run, and no
\* path was recorded for its input or for any later one.
C12_NoRateFails ==
    \A n \in CallsOf("hisat2") :
       /\ Len(sams) >= calls[n].idx => calls[n].rc = 0 /\ calls[n].out.matched
       /\ (calls[n].rc = 0 /\ ~calls[n].out.matched) =>
             /\ n = Len(calls)
             /\ pc = "done"
             /\ exc # NoExc
             /\ ExitCode = 1
             /\ Len(sams) = calls[n].idx - 1
             /\ bams = <<>> /\ sort_bams = <<>>

\* hisat2 returned 0 without a rate for the second input, after an accepted
\* first one
C12_Witness ==
    \E n \in CallsOf("hisat2") :
       /\ calls[n].rc = 0
       /\ ~calls[n].out.matched
       /\ calls[n].idx = 2
       /\ Len(sams) = 1

\* ---- C13
\* the tool of a per-input stage
ToolOf(stage) ==
    CASE stage = "align" -> "hisat2"
      [] stage = "view" -> "samtools view"
      [] stage = "sort" -> "samtools sort"

\* the files the stage's iteration at position k writes
OwnOutputs(stage, k) ==
    CASE stage = "align" ->
            IF Has(cfg, K_reads) /\ k <= Len(cfg[K_reads])
            THEN { SamOf(cfg[K_reads][k]), LogOf(cfg[K_reads][k]) } ELSE {}
      [] stage = "view" -> IF k <= Len(sams) THEN { BamOf(sams[k]) } ELSE {}
      [] stage = "sort" -> IF k <= Len(bams) THEN { SortOf(bams[k]) } ELSE {}

\* the output files of the stage's iterations before position k
EarlierOutputs(stage, k) ==
    CASE stage = "align" -> { sams[j] : j \in 1..(k - 1) }
      [] stage = "view" -> { bams[j] : j \in 1..(k - 1) }
      [] stage = "sort" -> { sort_bams[j] : j \in 1..(k - 1) }

\* C13: the step in which a per-input stage fails at its k-th input removes no
\* file and creates or rewrites no file other than the k-th input's own
\* outputs, so everything earlier stages and the inputs 1..k-1 left on disk
\* (outputs, logs, compressed reads) is still there and what cleanup removed
\* stays removed; the outputs of the inputs 1..k-1 of the stage exist; the
\* stage's tool was invoked for no input after the k-th; and after the
\* failure the run invokes no tool and changes no file.
C13_NoRollback ==
    [][ /\ (pc \in { "align", "view", "sort" } /\ pc' = "done" /\ exc' # NoExc) =>
             /\ DOMAIN fs \subseteq DOMAIN fs'
             /\ \A p \in DOMAIN fs' :
                   (p \notin DOMAIN fs \/ fs'[p] # fs[p]) => p \in OwnOutputs(pc, i)
             /\ EarlierOutputs(pc, i) \subseteq DOMAIN fs'
             /\ \A n \in 1..Len(calls') :
                   calls'[n].tool = ToolOf(pc) => calls'[n].idx <= i
             /\ \A n \in 1..Len(calls') :
                   StageOf(calls'[n].tool) <= StageOf(ToolOf(pc))
        /\ (pc = "done" /\ exc # NoExc) => UNCHANGED <<fs, calls>>
      ]_vars

\* samtools sort failed at the second of three inputs of a run that removes
\* .sam and .bam files: the first input's sorted file is on disk, its .sam and
\* .bam files are not, and the third input's .bam file is untouched
C13_Witness ==
    /\ pc = "done"
    /\ exc.type = "RuntimeError"
    /\ Len(calls) > 0
    /\ calls[Len(calls)].tool = "samtools sort"
    /\ calls[Len(calls)].idx = 2
    /\ Len(bams) = 3
    /\ Len(sort_bams) = 1
    /\ sort_bams[1] \in DOMAIN fs
    /\ sams[1] \notin DOMAIN fs
    /\ bams[1] \notin DOMAIN fs
    /\ bams[3] \in DOMAIN fs

\* ---- C14
\* the input file of a per-input stage's invocation
InputOf(call) ==
    CASE call.tool = "hisat2" -> cfg[K_reads][call.idx]
      [] call.tool = "samtools view" -> sams[call.idx]
      [] call.tool = "samtools sort" -> bams[call.idx]

\* C14: the input file of an invocation that returned a nonzero exit code
\* still exists afterwards, and so does the input file of every invocation of
\* a stage whose cleanup flag is false (gzip_fq_after_alignment for read
\* files, rm_sam_after_converting for .sam files, rm_bam_after_sorting for
\* .bam files).
C14_InputKept ==
    \A n \in CallsOf("hisat2") \cup CallsOf("samtools view") \cup CallsOf("samtools sort") :
       /\ calls[n].rc # 0 => InputOf(calls[n]) \in DOMAIN fs
       /\ (calls[n].tool = "hisat2" /\ Has(cfg, K_gzip) /\ ~cfg[K_gzip])
             => InputOf(calls[n]) \in DOMAIN fs
       /\ (calls[n].tool = "samtools view" /\ Has(cfg, K_rmsam) /\ ~cfg[K_rmsam])
             => InputOf(calls[n]) \in DOMAIN fs
       /\ (calls[n].tool = "samtools sort" /\ Has(cfg, K_rmbam) /\ ~cfg[K_rmbam])
             => InputOf(calls[n]) \in DOMAIN fs

\* the cleanup flag of a per-input stage's tool
FlagOf(tool) ==
    CASE tool = "hisat2" -> K_gzip
      [] tool = "samtools view" -> K_rmsam
      [] tool = "samtools sort" -> K_rmbam

\* (what does hold of the cleanup, with or without colliding paths: a step
\* removes a file only if it is the input file of the invocation made in that
\* step, the invocation returned 0 and the stage's flag is true)
C14_RemovesOnlyOwnInput ==
    [][ \A p \in DOMAIN fs \ DOMAIN fs' :
           /\ Len(calls') = Len(calls) + 1
           /\ LET call == calls'[Len(calls')] IN
                 /\ call.tool \in { "hisat2", "samtools view", "samtools sort" }
                 /\ call.rc = 0
                 /\ p = InputOf(call)
                 /\ Has(cfg, FlagOf(call.tool))
                 /\ cfg[FlagOf(call.tool)]
      ]_vars

\* ---- C15
\* C15: featureCounts is invoked at most once in a run, as the last
\* invocation; by then samtools sort was invoked once for every configured
\* input, in order, and each of these invocations returned 0; the last
\* arguments of featureCounts are the sorted files of all configured inputs
\* (<base>.sort.bam), in the order of the configured inputs, which is the
\* list _samtools_sort returned.
C15_CountOnceAfterSort ==
    \A n \in CallsOf("featureCounts") :
       LET reads == cfg[K_reads]
           N == Len(reads)
           cmd == calls[n].cmd
           sorts == CallsOf("samtools sort")
       IN  /\ CallsOf("featureCounts") = { n }
           /\ n = Len(calls)
           /\ Cardinality(sorts) = N
           /\ \A m \in sorts : calls[m].rc = 0 /\ m < n
           /\ \A k \in 1..N : \E m \in sorts : calls[m].idx = k
           /\ \A m1, m2 \in sorts : m1 < m2 => calls[m1].idx < calls[m2].idx
           /\ Len(sort_bams) = N
           /\ Len(cmd) >= N
           /\ \A k \in 1..N :
                 /\ cmd[Len(cmd) - N + k] = sort_bams[k]
                 /\ sort_bams[k] = SortOf(BamOf(SamOf(reads[k])))

\* featureCounts was invoked for three inputs of which the first and the last
\* have different sorted files
C15_Witness ==
    \E n \in CallsOf("featureCounts") :
       /\ Len(sort_bams) = 3
       /\ sort_bams[1] # sort_bams[3]
       /\ calls[n].cmd[Len(calls[n].cmd)] = sort_bams[3]

\* ---- C16
\* hisat2 returned 0 and reported this rate, in hundredths of a percent
ReportedRate(n, rate) ==
    /\ calls[n].tool = "hisat2"
    /\ calls[n].rc = 0
    /\ calls[n].out.matched
    /\ calls[n].out.rate = rate

GateError == Raise("RuntimeError", "_hisat_2_align_seq_reads: alignment rate is below 70% threshold")

\* C16: the gate passes exactly the rates of at least 70.00.  After hisat2
\* reported exactly 70.00 (7000 hundredths) for an input, the run has not
\* failed at the gate for that input, the input's .sam path is in the list at
\* the input's position and the loop has left that input; after a report of
\* 69.99 the run has failed at the gate and no path was recorded for the
\* input.
C16_GateBoundary ==
    \A n \in CallsOf("hisat2") :
       /\ ReportedRate(n, 7000) =>
             /\ n = Len(calls) => exc # GateError
             /\ Len(sams) >= calls[n].idx
             /\ sams[calls[n].idx] = SamOf(cfg[K_reads][calls[n].idx])
             /\ (pc = "align" /\ exc = NoExc) => i > calls[n].idx
       /\ ReportedRate(n, 6999) =>
             /\ exc = GateError
             /\ pc = "done"
             /\ n = Len(calls)
             /\ Len(sams) = calls[n].idx - 1

\* every input of a three-input run was reported at exactly 70.00 and the run
\* went through all stages
C16_Witness ==
    /\ SuccessfulRun
    /\ Len(sams) = 3
    /\ \A n \in CallsOf("hisat2") : ReportedRate(n, 7000)

\* ---- C17
\* hisat2 returned 0 and reported a rate that passes the gate
AcceptedCall(n) ==
    /\ calls[n].tool = "hisat2"
    /\ calls[n].rc = 0
    /\ calls[n].out.matched
    /\ calls[n].out.rate >= 7000

\* the log file of the input of a hisat2 invocation
LogOfCall(n) == LogOf(cfg[K_reads][calls[n].idx])

\* the alignment log files on disk
AlignLogs == { p \in DOMAIN fs : fs[p][1] = "log" /\ p # FeaturesLog }

\* C17: at every point of a run, the alignment log files on disk are those of
\* the inputs whose hisat2 invocation returned 0 and passed the gate: every
\* such input has its <base>.align.log, every log file on disk was written
\* for such an invocation and holds that invocation's command line followed
\* by its standard output (the latest one, where two inputs share a base
\* name), and the input of a failed invocation has no log file unless an
\* accepted input shares its base name.
C17_LogIffAccepted ==
    /\ \A n \in CallsOf("hisat2") :
          /\ AcceptedCall(n) => LogOfCall(n) \in AlignLogs
          /\ (~AcceptedCall(n) /\ \A m \in CallsOf("hisat2") :
                                     AcceptedCall(m) => LogOfCall(m) # LogOfCall(n))
                => LogOfCall(n) \notin DOMAIN fs
    /\ \A p \in AlignLogs :
          \E n \in CallsOf("hisat2") :
             /\ AcceptedCall(n)
             /\ LogOfCall(n) = p
             /\ fs[p] = <<"log", <<CmdLine(calls[n].cmd), StdOut("hisat2", calls[n].out)>>>>
             /\ \A m \in CallsOf("hisat2") :
                   (AcceptedCall(m) /\ LogOfCall(m) = p) => m <= n

\* the first input was accepted and has its log; the second, with another
\* base name, failed the gate and has none
C17_Witness ==
    /\ Len(calls) = 2
    /\ AcceptedCall(1)
    /\ LowRateCall(2)
    /\ LogOfCall(1) # LogOfCall(2)
    /\ LogOfCall(1) \in AlignLogs
    /\ LogOfCall(2) \notin DOMAIN fs

\* ---- C18
\* C18: calls that differ in the function name, the positional arguments or
\* the keyword arguments have different cache file names, and every call of a
\* wrapped function returns the value of the function for that very call.
C18_InjectiveNames ==
    \A m, n \in 1..Len(events) :
       /\ events[m].call # events[n].call => PfName(events[m].call) # PfName(events[n].call)
       /\ events[n].rv = FuncValue(events[n].call)

\* ---- C19
\* C19: in a run with a complete configuration, whatever its input list and
\* cleanup flags, as long as every tool invocation so far returned 0 and
\* every reported rate passed the gate: the run has not failed (so it goes on
\* to featureCounts), and the input file of the invocation the running stage
\* makes next exists.
C19_InputsSurvive ==
    (/\ ConfigRun
     /\ StageKeys \subseteq DOMAIN cfg
     /\ \A n \in 1..Len(calls) : ~FailedCall(n))
    =>
    /\ exc = NoExc
    /\ (pc = "align" /\ i <= Len(cfg[K_reads])) => cfg[K_reads][i] \in DOMAIN fs
    /\ (pc = "view" /\ i <= Len(sams)) => sams[i] \in DOMAIN fs
    /\ (pc = "sort" /\ i <= Len(bams)) => bams[i] \in DOMAIN fs

====
